---- MODULE Spec2Model ----
(***************************************************************************)
(* A model of qualifier.py: the quote command handler (run_command), the   *)
(* Quote value object with its three variants (normal, uwu, piglatin) and  *)
(* the class-level Database of quotes.                                     *)
(*                                                                         *)
(* A Python str is modelled as a sequence of characters, each character a  *)
(* one-character string; the two curly quotes U+201C and U+201D are the    *)
(* characters LDQUO and RDQUO.                                             *)
(***************************************************************************)
EXTENDS Integers, Sequences, FiniteSets, TLC

VARIABLES
    quotes,     \* Database.quotes: the list of stored Quote objects
    command,    \* the argument of the last run_command call
    raised,     \* the exception that call ended with (NoException: it returned)
    printed,    \* the arguments of that call's print calls, in order
    warned      \* the messages of that call's warnings.warn calls, in order

vars == <<quotes, command, raised, printed, warned>>

----------------------------------------------------------------------------
(* Program constants *)

MAX_QUOTE_LENGTH == 50

\* Quote.error_msgs; Python's index k is index k + 1 here
error_msgs ==
    << "Quote is too long",
       "Quote too long, only partially transformed",
       "Quote was not modified" >>

\* VariantMode: a StrEnum with auto() values, so each member is its lower-case name
NORMAL == "normal"
UWU == "uwu"
PIGLATIN == "piglatin"

\* the exceptions that are not ValueError(error_msgs[k])
NoException == "none"
DuplicateError == "DuplicateError"
InvalidCommand == "Invalid command"
IndexError == "IndexError: list index out of range"

\* what the except clause of run_command prints
DuplicateNotice == "Quote has already been added previously"

----------------------------------------------------------------------------
(* Characters and strings *)

LDQUO == "ldquo"
RDQUO == "rdquo"
DQUOTE == "\""

LowerLetters ==
    << "a", "b", "c", "d", "e", "f", "g", "h", "i", "j", "k", "l", "m",
       "n", "o", "p", "q", "r", "s", "t", "u", "v", "w", "x", "y", "z" >>

UpperLetters ==
    << "A", "B", "C", "D", "E", "F", "G", "H", "I", "J", "K", "L", "M",
       "N", "O", "P", "Q", "R", "S", "T", "U", "V", "W", "X", "Y", "Z" >>

Digits == {"0", "1", "2", "3", "4", "5", "6", "7", "8", "9"}

Range(s) == {s[i] : i \in 1..Len(s)}

IndexOf(c, s) == CHOOSE i \in 1..Len(s) : s[i] = c

\* str.upper and str.lower, character by character
UpperChar(c) ==
    IF c \in Range(LowerLetters) THEN UpperLetters[IndexOf(c, LowerLetters)] ELSE c

LowerChar(c) ==
    IF c \in Range(UpperLetters) THEN LowerLetters[IndexOf(c, UpperLetters)] ELSE c

Upper(s) == [i \in 1..Len(s) |-> UpperChar(s[i])]

\* str.capitalize: the first character upper-cased, all the others lower-cased
Capitalize(s) ==
    [i \in 1..Len(s) |-> IF i = 1 THEN UpperChar(s[i]) ELSE LowerChar(s[i])]

\* the characters of the regular expression class \w
IsWordChar(c) == c \in Range(LowerLetters) \cup Range(UpperLetters) \cup Digits \cup {"_"}

\* the characters str.split() splits on
Whitespace == {" ", "\t", "\n", "\r", "\f"}

Vowels == {"a", "e", "i", "o", "u", "A", "E", "I", "O", "U"}

StartsWith(s, p) == Len(s) >= Len(p) /\ SubSeq(s, 1, Len(p)) = p

Drop(s, n) == SubSeq(s, n + 1, Len(s))

RECURSIVE Flatten(_)
Flatten(ss) == IF ss = <<>> THEN <<>> ELSE Head(ss) \o Flatten(Tail(ss))

\* sep.join(ss)
RECURSIVE Join(_, _)
Join(sep, ss) ==
    IF ss = <<>> THEN <<>>
    ELSE IF Len(ss) = 1 THEN ss[1]
    ELSE ss[1] \o sep \o Join(sep, Tail(ss))

----------------------------------------------------------------------------
(* VariantMode *)

\* the member names getattr can find on the class, with their values
VariantModeMembers ==
    { [name |-> <<"N", "O", "R", "M", "A", "L">>, value |-> NORMAL],
      [name |-> <<"U", "W", "U">>, value |-> UWU],
      [name |-> <<"P", "I", "G", "L", "A", "T", "I", "N">>, value |-> PIGLATIN] }

\* VariantMode.get(value); value is <<>> for None and <<s>> for the str s
VariantModeGet(value) ==
    IF value = <<>> \/ value[1] = <<>> THEN NORMAL
    ELSE LET found == {m \in VariantModeMembers : m.name = Upper(value[1])}
         IN  IF found = {} THEN NORMAL ELSE (CHOOSE m \in found : TRUE).value

----------------------------------------------------------------------------
(* Quote *)

\* re.sub(r"[LR]", "W", quote)
SubUpperLR(quote) ==
    [i \in 1..Len(quote) |-> IF quote[i] \in {"L", "R"} THEN "W" ELSE quote[i]]

\* re.sub(r"[lr]", "w", quote)
SubLowerLR(quote) ==
    [i \in 1..Len(quote) |-> IF quote[i] \in {"l", "r"} THEN "w" ELSE quote[i]]

\* \b before position i of quote, where quote[i] is a word character
WordStart(quote, i) == i = 1 \/ ~IsWordChar(quote[i - 1])

\* re.sub(r"\b([uU])", r"\1-\1", quote)
Stutter(quote) ==
    Flatten([i \in 1..Len(quote) |->
                IF quote[i] \in {"u", "U"} /\ WordStart(quote, i)
                THEN <<quote[i], "-", quote[i]>>
                ELSE <<quote[i]>>])

\* the result of a method: the exception it raised (NoException: it returned
\* value) and the warnings it issued
Returned(value, warnings) == [raised |-> NoException, value |-> value, warnings |-> warnings]

Raised(exc) == [raised |-> exc, value |-> <<>>, warnings |-> <<>>]

\* both re.sub calls on L, R, l and r
Substituted(quote) == SubLowerLR(SubUpperLR(quote))

\* quote after the three re.sub calls at the top of uwuify
Stuttered(quote) == Stutter(Substituted(quote))

\* uwuify with the fallback forgetting the substitution (quote = self.quote and
\* no re.sub after it); the properties about the fallback must tell it apart
uwuify_fallback_unsubstituted(self_quote) ==
    IF Stuttered(self_quote) = self_quote THEN Raised(error_msgs[3])
    ELSE IF Len(Stuttered(self_quote)) > MAX_QUOTE_LENGTH
         THEN Returned(self_quote, <<error_msgs[2]>>)
         ELSE Returned(Stuttered(self_quote), <<>>)

\* Quote.uwuify(self, quote), called with quote = self.quote
uwuify(self_quote) ==
    IF Stuttered(self_quote) = self_quote THEN Raised(error_msgs[3])
    ELSE IF Len(Stuttered(self_quote)) > MAX_QUOTE_LENGTH
         THEN Returned(Substituted(self_quote), <<error_msgs[2]>>)
         ELSE Returned(Stuttered(self_quote), <<>>)

\* str.split(): the maximal runs of non-whitespace characters
RECURSIVE SplitFrom(_, _, _, _)
SplitFrom(s, i, word, words) ==
    LET closed == IF word = <<>> THEN words ELSE Append(words, word)
    IN  IF i > Len(s) THEN closed
        ELSE IF s[i] \in Whitespace THEN SplitFrom(s, i + 1, <<>>, closed)
        ELSE SplitFrom(s, i + 1, Append(word, s[i]), words)

Split(s) == SplitFrom(s, 1, <<>>, <<>>)

\* the end of re.match(r"[^aeiouAEIOU]+", word): the length of the leading run of
\* non-vowel characters (0: no match)
MatchEnd(word) ==
    IF \E i \in 1..Len(word) : word[i] \in Vowels
    THEN (CHOOSE i \in 1..Len(word) :
            /\ word[i] \in Vowels
            /\ \A j \in 1..(i - 1) : word[j] \notin Vowels) - 1
    ELSE Len(word)

\* the body of the loop of piglatinify
PigWord(word) ==
    LET end == MatchEnd(word)
    IN  IF end > 0
        THEN SubSeq(word, end + 1, Len(word)) \o SubSeq(word, 1, end) \o <<"a", "y">>
        ELSE word \o <<"w", "a", "y">>

\* quote after the loop, the capitalize and the join of piglatinify, for a quote
\* of one word or more
PigLatined(quote) ==
    LET words == Split(quote)
        pig == [i \in 1..Len(words) |-> PigWord(words[i])]
    IN  Join(<<" ">>, [pig EXCEPT ![1] = Capitalize(pig[1])])

\* Quote.piglatinify(self, quote): words[0] of an empty list is an IndexError
piglatinify(quote) ==
    IF Split(quote) = <<>> THEN Raised(IndexError)
    ELSE IF Len(PigLatined(quote)) > MAX_QUOTE_LENGTH THEN Raised(error_msgs[3])
    ELSE Returned(PigLatined(quote), <<>>)

\* Quote._create_variant(self)
create_variant(quote, mode) ==
    IF mode = UWU THEN uwuify(quote)
    ELSE IF mode = PIGLATIN THEN piglatinify(quote)
    ELSE Returned(quote, <<>>)

\* Quote.__init__ without the check of len(quote); the properties about the
\* length limit must tell it apart
QuoteInit_unchecked(quote, mode) ==
    LET variant == create_variant(quote, mode)
    IN  IF variant.raised # NoException THEN variant
        ELSE Returned([quote |-> quote, mode |-> mode,
                       transformed_quote |-> variant.value],
                      variant.warnings)

\* Quote.__init__(self, quote, mode): value is the constructed object
QuoteInit(quote, mode) ==
    IF Len(quote) > MAX_QUOTE_LENGTH THEN Raised(error_msgs[1])
    ELSE LET variant == create_variant(quote, mode)
         IN  IF variant.raised # NoException THEN variant
             ELSE Returned([quote |-> quote, mode |-> mode,
                            transformed_quote |-> variant.value],
                           variant.warnings)

\* Quote.__str__(self)
Str(quote) == quote.transformed_quote

----------------------------------------------------------------------------
(* Database *)

\* Database.get_quotes()
get_quotes(db) == [i \in 1..Len(db) |-> Str(db[i])]

\* add_quote testing `quote in cls.quotes`: a new object is in no list, so it is
\* always appended; the properties about duplicates must tell it apart
add_quote_by_identity(db, quote) ==
    [raised |-> NoException, quotes |-> Append(db, quote)]

\* add_quote appending before it checks; the properties about failed commands
\* must tell it apart
add_quote_append_first(db, quote) ==
    IF Str(quote) \in Range(get_quotes(db))
    THEN [raised |-> DuplicateError, quotes |-> Append(db, quote)]
    ELSE [raised |-> NoException, quotes |-> Append(db, quote)]

\* add_quote with cls.quotes.insert(0, quote); the properties about the order
\* must tell it apart
add_quote_at_front(db, quote) ==
    IF Str(quote) \in Range(get_quotes(db))
    THEN [raised |-> DuplicateError, quotes |-> db]
    ELSE [raised |-> NoException, quotes |-> <<quote>> \o db]

\* Database.add_quote(quote) on the class attribute db: the exception raised and
\* the class attribute afterwards
add_quote(db, quote) ==
    IF Str(quote) \in Range(get_quotes(db))
    THEN [raised |-> DuplicateError, quotes |-> db]
    ELSE [raised |-> NoException, quotes |-> Append(db, quote)]

----------------------------------------------------------------------------
(* The pattern of run_command *)

QUOTE_SPACE == <<"q", "u", "o", "t", "e", " ">>

QUOTE_LIST == <<"q", "u", "o", "t", "e", " ", "l", "i", "s", "t">>

\* the alternatives of group 1 of the pattern, in the order the pattern tries them
TagAlternatives == << <<"u", "w", "u">>, <<"p", "i", "g", "l", "a", "t", "i", "n">> >>

\* ("|LDQUO)(.*?)("|RDQUO) up to the end of the string: `.` is any character but
\* the newline
MatchQuoted(rest) ==
    /\ Len(rest) >= 2
    /\ rest[1] \in {DQUOTE, LDQUO}
    /\ rest[Len(rest)] \in {DQUOTE, RDQUO}
    /\ \A i \in 2..(Len(rest) - 1) : rest[i] # "\n"

\* what ` ?` leaves of rest, in the order the pattern tries: the space taken, then not
AfterOptionalSpace(rest) ==
    IF rest # <<>> /\ rest[1] = " " THEN <<Tail(rest), rest>> ELSE <<rest>>

\* group 1 written (\w+)?: any word is taken as the tag; the properties about
\* unknown tags must tell it apart
GroupOneAnyWord(rest) ==
    LET n == IF \E i \in 1..Len(rest) : ~IsWordChar(rest[i])
             THEN (CHOOSE i \in 1..Len(rest) :
                      /\ ~IsWordChar(rest[i])
                      /\ \A j \in 1..(i - 1) : IsWordChar(rest[j])) - 1
             ELSE Len(rest)
    IN  (IF n > 0 THEN << [group1 |-> <<SubSeq(rest, 1, n)>>, rest |-> Drop(rest, n)] >>
         ELSE <<>>)
        \o << [group1 |-> <<>>, rest |-> rest] >>

\* the ways group 1 can match at the start of rest, in the order the pattern tries:
\* each alternative, then the group left out (None)
GroupOne(rest) ==
    SelectSeq([i \in 1..Len(TagAlternatives) |->
                  [group1 |-> <<TagAlternatives[i]>>,
                   rest |-> Drop(rest, Len(TagAlternatives[i]))]],
              LAMBDA alt : StartsWith(rest, alt.group1[1]))
    \o << [group1 |-> <<>>, rest |-> rest] >>

\* re.fullmatch(r'quote (uwu|piglatin)? ?("|LDQUO)(.*?)("|RDQUO)', command):
\* <<>> for None, else <<m>> with m.group1 (<<>> for None) and m.group3
FullMatchQuote(cmd) ==
    IF ~StartsWith(cmd, QUOTE_SPACE) THEN <<>>
    ELSE LET ways ==
                 Flatten([i \in 1..Len(GroupOne(Drop(cmd, 6))) |->
                     LET alt == GroupOne(Drop(cmd, 6))[i]
                         tails == SelectSeq(AfterOptionalSpace(alt.rest), MatchQuoted)
                     IN  [j \in 1..Len(tails) |->
                             [group1 |-> alt.group1,
                              group3 |-> SubSeq(tails[j], 2, Len(tails[j]) - 1)]]])
         IN  IF ways = <<>> THEN <<>> ELSE <<ways[1]>>

----------------------------------------------------------------------------
(* The inputs: the command lines given to run_command *)

\* the store is capped at MaxStore quotes
MaxStore == 2

\* the long texts are Slack or fewer characters short of MAX_QUOTE_LENGTH, or one
\* character over it
Slack == 1

Rep(c, n) == [i \in 1..n |-> c]

ShortTexts ==
    { <<>>,
      <<"h", "i">>,
      <<"u", " ", "R", "l">> }

LongLengths == (MAX_QUOTE_LENGTH - Slack)..(MAX_QUOTE_LENGTH + 1)

\* a text of n characters: the core, then the letter a
Padded(core, n) == core \o Rep("a", n - Len(core))

\* long texts that stutter and have no l or r
LongTexts == {Padded(<<"u">>, n) : n \in LongLengths}

\* long texts that stutter and have an l
LongTextsWithL == {Padded(<<"u", "l">>, n) : n \in LongLengths}

\* a text whose pig latin is MAX_QUOTE_LENGTH characters long
LongestPigText == Padded(<<"h">>, MAX_QUOTE_LENGTH - 2)

Texts == ShortTexts \cup LongTexts

Tags == {<<>>, <<"u", "w", "u">>, <<"p", "i", "g", "l", "a", "t", "i", "n">>}

\* tags that are neither uwu nor piglatin
OtherTags ==
    { <<"b", "a", "n", "a", "n", "a">>, <<"U", "W", "U">>, <<"n", "o", "r", "m", "a", "l">>,
      <<"l", "i", "s", "t">> }

\* quote <tag> <open><text><close>, and quote <open><text><close> for no tag
TaggedQuote(tag, open, text, close) ==
    QUOTE_SPACE \o (IF tag = <<>> THEN <<>> ELSE tag \o <<" ">>)
        \o <<open>> \o text \o <<close>>

AddCommands ==
    {TaggedQuote(tag, DQUOTE, text, DQUOTE) : tag \in Tags, text \in Texts}
    \cup {TaggedQuote(<<"u", "w", "u">>, DQUOTE, text, DQUOTE) : text \in LongTextsWithL}
    \cup {TaggedQuote(<<"p", "i", "g", "l", "a", "t", "i", "n">>, DQUOTE,
                      LongestPigText, DQUOTE)}

OtherTagCommands ==
    {TaggedQuote(tag, DQUOTE, <<"h", "i">>, DQUOTE) : tag \in OtherTags}

QuoteStyleCommands ==
    {TaggedQuote(<<>>, open, <<"h", "i">>, close) :
        open \in {DQUOTE, LDQUO, RDQUO}, close \in {DQUOTE, LDQUO, RDQUO}}

OddCommands ==
    { QUOTE_LIST,
      QUOTE_LIST \o <<" ">>,
      <<>>,
      <<"q", "u", "o", "t", "e">>,
      QUOTE_SPACE \o <<"h", "i">>,
      QUOTE_SPACE \o <<DQUOTE>>,
      QUOTE_SPACE \o <<"u", "w", "u", DQUOTE, "u", " ", "R", "l", DQUOTE>>,
      QUOTE_SPACE \o <<"p", "i", "g", "l", "a", "t", "i", "n", " ", DQUOTE, " ", DQUOTE>>,
      QUOTE_SPACE \o <<" ", DQUOTE, "h", "i", DQUOTE>>,
      QUOTE_SPACE \o <<" ", " ", DQUOTE, "h", "i", DQUOTE>>,
      QUOTE_SPACE \o <<DQUOTE, "h", "\n", "i", DQUOTE>>,
      <<"Q", "u", "o", "t", "e", " ", DQUOTE, "h", "i", DQUOTE>> }

Commands == AddCommands \cup OtherTagCommands \cup QuoteStyleCommands \cup OddCommands

----------------------------------------------------------------------------
(* run_command *)

\* the first three lines of run_command(cmd), which do not read the Database: the
\* match, and the result of Quote(match.group(3), mode) when there is a match
Construct(cmd) ==
    LET m == FullMatchQuote(cmd)
    IN  [match |-> m,
         quote |-> IF m = <<>> THEN Raised(NoException)
                   ELSE QuoteInit(m[1].group3, VariantModeGet(m[1].group1))]

\* Construct, tabulated over the commands
Constructed == [cmd \in Commands |-> Construct(cmd)]

\* f"- {'\n- '.join(quotes)}"
BulletList(strs) == <<"-", " ">> \o Join(<<"\n", "-", " ">>, strs)

\* run_command(command) with Database.quotes = db: the class attribute afterwards,
\* the exception the call ends with, what it printed and the warnings it issued
run_command(db, cmd) ==
    LET m == Constructed[cmd].match
    IN  IF m # <<>>
        THEN LET quote == Constructed[cmd].quote
             IN  IF quote.raised # NoException
                 THEN [quotes |-> db, raised |-> quote.raised, printed |-> <<>>,
                       warned |-> quote.warnings]
                 ELSE LET added == add_quote(db, quote.value)
                      IN  IF added.raised = DuplicateError
                          THEN [quotes |-> added.quotes, raised |-> NoException,
                                printed |-> << <<DuplicateNotice>> >>,
                                warned |-> quote.warnings]
                          ELSE [quotes |-> added.quotes, raised |-> added.raised,
                                printed |-> <<>>, warned |-> quote.warnings]
        ELSE IF cmd = QUOTE_LIST
        THEN [quotes |-> db, raised |-> NoException,
              printed |-> <<BulletList(get_quotes(db))>>, warned |-> <<>>]
        ELSE [quotes |-> db, raised |-> InvalidCommand, printed |-> <<>>,
              warned |-> <<>>]

----------------------------------------------------------------------------
(* The state machine *)

Init ==
    /\ quotes = <<>>
    /\ command = <<>>
    /\ raised = NoException
    /\ printed = <<>>
    /\ warned = <<>>

\* one call run_command(cmd); command becomes <<cmd>>
RunCommand(cmd) ==
    LET result == run_command(quotes, cmd)
    IN  /\ Len(result.quotes) <= MaxStore
        /\ quotes' = result.quotes
        /\ command' = <<cmd>>
        /\ raised' = result.raised
        /\ printed' = result.printed
        /\ warned' = result.warned

Next == \E cmd \in Commands : RunCommand(cmd)

Spec == Init /\ [][Next]_vars

----------------------------------------------------------------------------
(* What a state says about the last call *)

Called == command # <<>>

\* the last call matched the quote pattern
IsQuoteCommand == Called /\ Constructed[command[1]].match # <<>>

\* group 3 and the mode of the last call, when IsQuoteCommand
LastText == Constructed[command[1]].match[1].group3

LastMode == VariantModeGet(Constructed[command[1]].match[1].group1)

\* the rendered text of the Quote the last call constructed, when it constructed one
LastRendered == Str(Constructed[command[1]].quote.value)

\* the outcomes of a call
Stored == IsQuoteCommand /\ raised = NoException /\ printed = <<>>

DuplicateReported == IsQuoteCommand /\ raised = NoException /\ printed = << <<DuplicateNotice>> >>

TooLongError == error_msgs[1]

NoOpError == error_msgs[3]

TruncationWarning == error_msgs[2]

IsPrefix(s, t) == Len(s) <= Len(t) /\ SubSeq(t, 1, Len(s)) = s

\* the number of lines of a printed string
LineCount(s) == IF s = <<>> THEN 0 ELSE 1 + Cardinality({i \in 1..Len(s) : s[i] = "\n"})

----------------------------------------------------------------------------
(* The claims *)

\* C1: the store never holds two entries with the same rendered text, whatever
\* raw texts and modes produced them.
C1_NoDuplicateRendered ==
    \A i, j \in 1..Len(quotes) : i # j => Str(quotes[i]) # Str(quotes[j])

\* a quote of one mode was refused as a duplicate of a stored quote of another mode
C1_Witness ==
    /\ DuplicateReported
    /\ Len(quotes) >= 2
    /\ \E i \in 1..Len(quotes) :
          quotes[i].mode # LastMode /\ Str(quotes[i]) = LastRendered

\* C2: a command that does not succeed (a duplicate add, or one that ends in an
\* exception) leaves the store as it was, and quote list prints the same afterwards.
C2_FailureLeavesStore ==
    [][(raised' # NoException \/ printed' = << <<DuplicateNotice>> >>)
          => /\ quotes' = quotes
             /\ run_command(quotes', QUOTE_LIST) = run_command(quotes, QUOTE_LIST)]_vars

\* a duplicate of the first of two stored quotes was refused
C2_Witness ==
    /\ DuplicateReported
    /\ Len(quotes) >= 2
    /\ Str(quotes[1]) = LastRendered

\* C3: across a command the listed sequence before is a prefix of the listed
\* sequence after, it grows by at most one entry and only through a successful
\* add, and quote list does not change the store.
C3_AppendOnly ==
    [][/\ IsPrefix(get_quotes(quotes), get_quotes(quotes'))
       /\ Len(quotes') <= Len(quotes) + 1
       /\ (Len(quotes') # Len(quotes)
              => /\ Constructed[command'[1]].match # <<>>
                 /\ raised' = NoException
                 /\ printed' = <<>>
                 /\ get_quotes(quotes') =
                        Append(get_quotes(quotes), Str(Constructed[command'[1]].quote.value)))
       /\ (command' = <<QUOTE_LIST>> => quotes' = quotes)]_vars

\* a second quote was just stored behind the first
C3_Witness == Stored /\ Len(quotes) = 2 /\ Str(quotes[2]) = LastRendered

\* C4 as claimed: quote <tag> "<text>" with a tag that is neither uwu nor piglatin
\* stores <text> unchanged and does not fail with InvalidCommandError.
C4_OtherTagIsNormal ==
    (Called /\ command[1] \in OtherTagCommands)
        => /\ raised # InvalidCommand
           /\ <<"h", "i">> \in Range(get_quotes(quotes))

\* C4 as amended: quote <tag> "<text>" with a tag that is neither uwu nor piglatin
\* does not match the quote pattern: the command fails with InvalidCommandError,
\* prints nothing and leaves the store as it was.
C4_OtherTagIsInvalid ==
    [][(command'[1] \in OtherTagCommands)
          => /\ raised' = InvalidCommand
             /\ printed' = <<>>
             /\ quotes' = quotes]_vars

\* quote banana "hi" was given to a store that holds a quote
C4_Witness ==
    /\ command = <<TaggedQuote(<<"b", "a", "n", "a", "n", "a">>, DQUOTE, <<"h", "i">>, DQUOTE)>>
    /\ raised = InvalidCommand
    /\ Len(quotes) >= 1

\* C5: for a raw text of at most 50 characters the Uwu construction either fails
\* with NoOpError or yields a rendered text different from the raw text, so no Uwu
\* quote whose rendered text equals its raw text is stored; a text with none of
\* l, r, u, L, R, U fails with NoOpError.
C5_UwuChangesOrFails ==
    /\ \A i \in 1..Len(quotes) :
          quotes[i].mode = UWU => quotes[i].transformed_quote # quotes[i].quote
    /\ (IsQuoteCommand /\ LastMode = UWU /\ Len(LastText) <= MAX_QUOTE_LENGTH)
          => /\ raised = NoOpError \/ (raised = NoException /\ LastRendered # LastText)
             /\ (Range(LastText) \cap {"l", "r", "u", "L", "R", "U"} = {}
                    => raised = NoOpError)

\* C6 as claimed: for an Uwu quote of at most 50 characters, when the substituted
\* and stuttered result is longer than 50 characters the rendered text is the
\* substituted text, the warning is issued and the store holds that text; when it
\* is at most 50 characters the store holds the stuttered text and no warning is
\* issued.
C6_UwuFallback ==
    (IsQuoteCommand /\ LastMode = UWU /\ Len(LastText) <= MAX_QUOTE_LENGTH)
        => IF Len(Stuttered(LastText)) > MAX_QUOTE_LENGTH
           THEN /\ raised = NoException
                /\ warned = <<TruncationWarning>>
                /\ LastRendered = Substituted(LastText)
                /\ Len(LastRendered) = Len(LastText)
                /\ Substituted(LastText) \in Range(get_quotes(quotes))
           ELSE /\ raised = NoException
                /\ warned = <<>>
                /\ Stuttered(LastText) \in Range(get_quotes(quotes))

\* C6 as amended: as claimed, but when the substituted and stuttered result is at
\* most 50 characters the store holds it, with no warning, only if it differs
\* from the raw text; if it equals the raw text the command fails with NoOpError
\* and no warning. A command that succeeds either appends the quote or reports
\* its rendered text as already stored.
C6_UwuFallbackOrNoOp ==
    (IsQuoteCommand /\ LastMode = UWU /\ Len(LastText) <= MAX_QUOTE_LENGTH)
        => IF Len(Stuttered(LastText)) > MAX_QUOTE_LENGTH
           THEN /\ raised = NoException
                /\ warned = <<TruncationWarning>>
                /\ LastRendered = Substituted(LastText)
                /\ Len(LastRendered) = Len(LastText)
                /\ Substituted(LastText) \in Range(get_quotes(quotes))
                /\ Stored \/ DuplicateReported
                /\ Stored => quotes[Len(quotes)] =
                                [quote |-> LastText, mode |-> UWU,
                                 transformed_quote |-> Substituted(LastText)]
           ELSE IF Stuttered(LastText) # LastText
           THEN /\ raised = NoException
                /\ warned = <<>>
                /\ Stuttered(LastText) \in Range(get_quotes(quotes))
                /\ Stored \/ DuplicateReported
                /\ Stored => quotes[Len(quotes)] =
                                [quote |-> LastText, mode |-> UWU,
                                 transformed_quote |-> Stuttered(LastText)]
           ELSE /\ raised = NoOpError
                /\ warned = <<>>

\* an Uwu quote with an l was stored by its substituted text, under the warning
C6_Witness ==
    /\ Stored
    /\ LastMode = UWU
    /\ warned = <<TruncationWarning>>
    /\ Len(Stuttered(LastText)) > MAX_QUOTE_LENGTH
    /\ LastRendered # LastText
    /\ Str(quotes[Len(quotes)]) = Substituted(LastText)

\* C7: when the PigLatin result of a raw text of at most 50 characters is longer
\* than 50 characters the construction fails with TooLongError, as for a raw text
\* of more than 50 characters, and not with NoOpError.
C7_PigLatinTooLong ==
    (/\ IsQuoteCommand
     /\ LastMode = PIGLATIN
     /\ Len(LastText) <= MAX_QUOTE_LENGTH
     /\ Split(LastText) # <<>>
     /\ Len(PigLatined(LastText)) > MAX_QUOTE_LENGTH)
        => raised = TooLongError /\ raised # NoOpError

\* C8: quote list prints one line per stored quote, "- " and the rendered text,
\* in insertion order and joined by newlines, so as many lines as stored quotes,
\* the empty store included.
C8_ListOneLinePerQuote ==
    (Called /\ command[1] = QUOTE_LIST)
        => /\ raised = NoException
           /\ printed = << Join(<<"\n">>,
                               [i \in 1..Len(quotes) |-> <<"-", " ">> \o Str(quotes[i])]) >>
           /\ LineCount(printed[1]) = Len(quotes)

\* C9: every stored quote has a raw text and a rendered text of at most 50
\* characters, and a raw text of more than 50 characters is rejected with
\* TooLongError, without a warning, in every mode.
C9_StoredWithinLimit ==
    /\ \A i \in 1..Len(quotes) :
          /\ Len(quotes[i].quote) <= MAX_QUOTE_LENGTH
          /\ Len(quotes[i].transformed_quote) <= MAX_QUOTE_LENGTH
    /\ (IsQuoteCommand /\ Len(LastText) > MAX_QUOTE_LENGTH)
          => raised = TooLongError /\ warned = <<>>

\* the store holds a PigLatin quote rendered in 50 characters and an Uwu quote of
\* 50 raw characters that fell back to its substituted text
C9_Witness ==
    /\ \E i \in 1..Len(quotes) :
          /\ quotes[i].mode = PIGLATIN
          /\ Len(quotes[i].transformed_quote) = MAX_QUOTE_LENGTH
    /\ \E i \in 1..Len(quotes) :
          /\ quotes[i].mode = UWU
          /\ Len(quotes[i].quote) = MAX_QUOTE_LENGTH
          /\ Len(Stuttered(quotes[i].quote)) > MAX_QUOTE_LENGTH

\* C10: every call ends in one of the documented outcomes: a quote stored, the
\* duplicate notice, the list, TooLongError, NoOpError or InvalidCommandError.
C10_DocumentedOutcome ==
    Called
        => \/ Stored
           \/ DuplicateReported
           \/ (command[1] = QUOTE_LIST /\ raised = NoException /\ Len(printed) = 1)
           \/ (raised \in {TooLongError, NoOpError, InvalidCommand} /\ printed = <<>>)

====
